---- MODULE Spec2Model ----
(***************************************************************************)
(* A model of the sudoku engine of monquixote/gosudoku                      *)
(* (src/sudoku/sudoku.go): SolvePuzzle and its search, the parallel        *)
(* constraint propagation of applyAllConstraints, and ValidatePuzzle.      *)
(*                                                                         *)
(* Go slices are 0-indexed; the model keeps them as TLA+ sequences and     *)
(* reads element i of slice s as s[i+1].  The constraint maps live in a    *)
(* heap (a sequence of key sets); a board ([]constraint) is a sequence of  *)
(* heap addresses, so that sharing between boards is expressible.          *)
(***************************************************************************)
EXTENDS Integers, Sequences, FiniteSets, TLC

VARIABLES
    \* ---- SolvePuzzle (specification Spec) ----
    slices,     \* heap of []int values: slices[r] is the content of slice r
    puzzle,     \* address in slices of the caller's puzzle
    puzzle0,    \* history: the content of the caller's puzzle at the call
    heap,       \* heap of constraint maps: heap[a] is the key set of map a
    stack,      \* call stack of solveBySearch, innermost frame last
    pc,         \* "init" | "solving" | "done" ("idle": no call of SolvePuzzle)
    result,     \* address in slices of the slice SolvePuzzle returned (0: none)
    solved,     \* the bool SolvePuzzle returned
    \* ---- one call of applyAllConstraints (specification SpecWave) ----
    wave,       \* the caller: [at, category, spawned, received, changes,
                \*              constraints, heap0]
    unit,       \* unit[<<category, m>>]: "none" | "running" | "done"
    access,     \* access[<<category, m>>]: the cells the unit read and wrote
    changeChan, \* the buffered channel: the values sent and not yet received
    \* ---- one call of ValidatePuzzle (specification SpecValidate) ----
    vcall,      \* [at, ret]: at = "call" | "returned"; ret = the result
    \* ---- one propagation step on a board (specification SpecProp) ----
    prop        \* [at, op, unit, board, heap0, changes]: the step applied,
                \* the heap before it and the number it returned

solverVars == <<slices, puzzle, puzzle0, heap, stack, pc, result, solved>>
waveVars == <<wave, unit, access, changeChan>>
vars == <<slices, puzzle, puzzle0, heap, stack, pc, result, solved,
          wave, unit, access, changeChan, vcall, prop>>

-----------------------------------------------------------------------------
(* Program constants *)

\* const dim = 9
dim == 9

\* var boxDim = int(math.Sqrt(dim))
boxDim == CHOOSE b \in 1..dim : b * b = dim

\* Element i (0-based) of a Go slice kept as a sequence.
At(s, i) == s[i + 1]

\* The only key of a one-key map.
OnlyKey(set) == CHOOSE k \in set : TRUE

\* The element of a singleton set.  The recursive operators below are
\* written as  The({ body : x \in {e} }) : x stands for the value of e in
\* body, as a local variable of the code holds a value, not an expression.
The(S) == CHOOSE x \in S : TRUE

-----------------------------------------------------------------------------
(* generateBoardMasks: [type - row/column/box][mask index][mask value] *)

\* The `offset` counter of generateBoardMasks when box i is built: it is
\* incremented after every box i' with (i'+1) % boxDim = 0.
\* Mutant of boxOffset: the offset is never incremented.
boxOffsetNever(i) == 0

\* Mutant of boxOffset: the test i%boxDim == 0 for (i+1)%boxDim == 0.
boxOffsetEarly(i) == Cardinality({ip \in 0..(i - 1) : ip % boxDim = 0})

boxOffset(i) == Cardinality({ip \in 0..(i - 1) : (ip + 1) % boxDim = 0})

generateBoardMasks ==
    LET rows  == [m \in 1..dim |-> [n \in 1..dim |-> (n - 1) + (m - 1) * dim]]
        cols  == [m \in 1..dim |-> [n \in 1..dim |-> (n - 1) * dim + (m - 1)]]
        boxes == [m \in 1..dim |->
                    [n \in 1..dim |->
                        LET i == m - 1
                            j == (n - 1) \div boxDim
                            k == (n - 1) % boxDim
                        IN  j + (k * dim) + (i * boxDim)
                              + (boxOffset(i) * dim * (boxDim - 1))]]
    IN  <<rows, cols, boxes>>

masks == generateBoardMasks

-----------------------------------------------------------------------------
(* Constraints *)

\* newConstraint(val): {val} for a clue, {1..dim} for 0.
newConstraint(val) == IF val # 0 THEN {val} ELSE 1..dim

\* puzzle2Constraints: one fresh map per cell, allocated in cell order.
\* Returns the new heap and the board (the addresses of the maps).
puzzle2Constraints(h, p) ==
    [heap  |-> h \o [i \in 1..Len(p) |-> newConstraint(p[i])],
     board |-> [i \in 1..Len(p) |-> Len(h) + i]]

\* Mutant of makeSlice: no allocation, the first slice is handed out again.
makeSliceReused(sl, n) ==
    [slices |-> [sl EXCEPT ![1] = [i \in 1..n |-> 0]], ref |-> 1]

\* make([]int, n): a new slice of n zeros; the heap of slices with it, and
\* its address.
makeSlice(sl, n) ==
    [slices |-> Append(sl, [i \in 1..n |-> 0]), ref |-> Len(sl) + 1]

\* Mutant of puzzleValue: the test len(set) == 1 inverted.
puzzleValueInverted(set) ==
    IF Cardinality(set) # 1 /\ set # {} THEN OnlyKey(set) ELSE 0

\* The element constraints2Puzzle writes for one map: its key when it has
\* exactly one, 0 otherwise.
puzzleValue(set) == IF Cardinality(set) = 1 THEN OnlyKey(set) ELSE 0

\* constraints2Puzzle: fills a slice it makes; the heap of slices after
\* it, and the address of the slice it returns.
constraints2Puzzle(sl, h, constraints) ==
    LET m == makeSlice(sl, Len(constraints))
    IN  [slices |-> [m.slices EXCEPT ![m.ref] =
                        [i \in 1..Len(constraints) |-> puzzleValue(h[constraints[i]])]],
         ref    |-> m.ref]

\* constraint.clone: a fresh map with the same keys.
cloneConstraint(set) == set

\* Mutant of cloneBoard: the slice is copied, the maps are not cloned.
cloneBoardShallow(h, constraints) == [heap |-> h, board |-> constraints]

\* cloneBoard: a fresh board whose maps are clones, allocated in cell order.
cloneBoard(h, constraints) ==
    [heap  |-> h \o [i \in 1..Len(constraints) |-> cloneConstraint(h[constraints[i]])],
     board |-> [i \in 1..Len(constraints) |-> Len(h) + i]]

-----------------------------------------------------------------------------
(* Propagation.  The state threaded through a unit of propagation is a     *)
(* record  [heap, changes, rd, wr]: the heap of maps, the change count,    *)
(* and the sets of board cells the unit has read and written so far.       *)

\* Mutant of p1Inner: without the test elem == cur, the key is deleted from
\* the visited cell too.
RECURSIVE p1InnerSelf(_, _, _, _, _, _)
p1InnerSelf(st, constraints, boardMask, cur, key, b) ==
    IF b > Len(boardMask) THEN st
    ELSE LET elem == boardMask[b]
         IN  IF key \notin st.heap[At(constraints, elem)]
             THEN p1InnerSelf([st EXCEPT !.rd = @ \cup {elem}],
                              constraints, boardMask, cur, key, b + 1)
             ELSE p1InnerSelf([heap    |-> [st.heap EXCEPT ![At(constraints, elem)] = @ \ {key}],
                               changes |-> st.changes + 1,
                               rd      |-> st.rd \cup {elem},
                               wr      |-> st.wr \cup {elem}],
                              constraints, boardMask, cur, key, b + 1)

\* propagateConstraint1, inner loop: for _, elem := range boardMask { ... }
RECURSIVE p1Inner(_, _, _, _, _, _)
p1Inner(st0, constraints, boardMask, cur, key, b) ==
    The({ IF b > Len(boardMask) THEN st
          ELSE LET elem == boardMask[b]
               IN  IF elem = cur
                   THEN p1Inner(st, constraints, boardMask, cur, key, b + 1)
                   ELSE IF key \notin st.heap[At(constraints, elem)]
                   THEN p1Inner([st EXCEPT !.rd = @ \cup {elem}],
                                constraints, boardMask, cur, key, b + 1)
                   ELSE p1Inner([heap    |-> [st.heap EXCEPT ![At(constraints, elem)] = @ \ {key}],
                                 changes |-> st.changes + 1,
                                 rd      |-> st.rd \cup {elem},
                                 wr      |-> st.wr \cup {elem}],
                                constraints, boardMask, cur, key, b + 1)
          : st \in {st0} })

\* propagateConstraint1, outer loop: for _, cur := range boardMask { ... }
RECURSIVE p1Outer(_, _, _, _)
p1Outer(st0, constraints, boardMask, a) ==
    The({ IF a > Len(boardMask) THEN st
          ELSE LET cur == boardMask[a]
                   set == st.heap[At(constraints, cur)]
                   st1 == [st EXCEPT !.rd = @ \cup {cur}]
               IN  IF Cardinality(set) # 1
                   THEN p1Outer(st1, constraints, boardMask, a + 1)
                   ELSE p1Outer(p1Inner(st1, constraints, boardMask, cur, OnlyKey(set), 1),
                                constraints, boardMask, a + 1)
          : st \in {st0} })

\* Rule A: a known value of a mask cannot appear anywhere else in the mask.
propagateConstraint1(st, constraints, boardMask) ==
    p1Outer(st, constraints, boardMask, 1)

\* Mutant of p2Scan: a second carrier of the digit replaces the first
\* instead of ending the scan (no continue Outer on found != -1).
RECURSIVE p2ScanLast(_, _, _, _, _, _, _)
p2ScanLast(h, constraints, boardMask, i, b, found, rd) ==
    IF b > Len(boardMask) THEN [found |-> found, rd |-> rd]
    ELSE LET val == boardMask[b]
             set == h[At(constraints, val)]
         IN  IF i \in set
             THEN IF Cardinality(set) = 1
                  THEN [found |-> -2, rd |-> rd \cup {val}]
                  ELSE p2ScanLast(h, constraints, boardMask, i, b + 1, val, rd \cup {val})
             ELSE p2ScanLast(h, constraints, boardMask, i, b + 1, found, rd \cup {val})

\* propagateConstraint2, the scan of one digit i over the mask:
\* the cell found (-1: none), or -2 for `continue Outer`; with the cells read.
RECURSIVE p2Scan(_, _, _, _, _, _, _)
p2Scan(h, constraints, boardMask, i, b, found, rd) ==
    IF b > Len(boardMask) THEN [found |-> found, rd |-> rd]
    ELSE LET val == boardMask[b]
             set == h[At(constraints, val)]
         IN  IF i \in set
             THEN IF found # -1 \/ Cardinality(set) = 1
                  THEN [found |-> -2, rd |-> rd \cup {val}]
                  ELSE p2Scan(h, constraints, boardMask, i, b + 1, val, rd \cup {val})
             ELSE p2Scan(h, constraints, boardMask, i, b + 1, found, rd \cup {val})

\* The test of propagateConstraint2 before it forces the found cell.
p2FoundTest(found) == found > 0

\* Mutant of p2Outer: the last cell of the mask is given newConstraint(i)
\* instead of the found cell.
RECURSIVE p2OuterLastCell(_, _, _, _)
p2OuterLastCell(st0, constraints, boardMask, i) ==
    The({ IF i > dim THEN st
          ELSE The({ IF sc.found # -2 /\ p2FoundTest(sc.found)
                     THEN p2OuterLastCell(
                            [heap    |-> [st.heap EXCEPT
                                            ![At(constraints, boardMask[Len(boardMask)])] =
                                                newConstraint(i)],
                             changes |-> st.changes
                                           + Cardinality(st.heap[At(constraints, sc.found)]) - 1,
                             rd      |-> sc.rd,
                             wr      |-> st.wr \cup {boardMask[Len(boardMask)]}],
                            constraints, boardMask, i + 1)
                     ELSE p2OuterLastCell([st EXCEPT !.rd = sc.rd], constraints, boardMask, i + 1)
                     : sc \in {p2Scan(st.heap, constraints, boardMask, i, 1, -1, st.rd)} })
          : st \in {st0} })

\* propagateConstraint2, outer loop: for i := 1; i <= dim; i++ { ... }
RECURSIVE p2Outer(_, _, _, _)
p2Outer(st0, constraints, boardMask, i) ==
    The({ IF i > dim THEN st
          ELSE The({ IF sc.found # -2 /\ p2FoundTest(sc.found)
                     THEN p2Outer([heap    |-> [st.heap EXCEPT ![At(constraints, sc.found)] =
                                                                  newConstraint(i)],
                                   changes |-> st.changes
                                                 + Cardinality(st.heap[At(constraints, sc.found)]) - 1,
                                   rd      |-> sc.rd,
                                   wr      |-> st.wr \cup {sc.found}],
                                  constraints, boardMask, i + 1)
                     ELSE p2Outer([st EXCEPT !.rd = sc.rd], constraints, boardMask, i + 1)
                     : sc \in {p2Scan(st.heap, constraints, boardMask, i, 1, -1, st.rd)} })
          : st \in {st0} })

\* Rule B: the only cell of a mask permitted to have a value must have it.
propagateConstraint2(st, constraints, boardMask) ==
    p2Outer(st, constraints, boardMask, 1)

\* Mutant of propagateConstraints: the changes of Rule A are not added.
propagateConstraintsBOnly(h, constraints, boardMask) ==
    LET st0 == [heap |-> h, changes |-> 0, rd |-> {}, wr |-> {}]
        st1 == propagateConstraint1(st0, constraints, boardMask)
    IN  propagateConstraint2([st1 EXCEPT !.changes = 0], constraints, boardMask)

\* propagateConstraints: Rule A, then Rule B, on one mask; the sum of changes.
propagateConstraints(h, constraints, boardMask) ==
    LET st0 == [heap |-> h, changes |-> 0, rd |-> {}, wr |-> {}]
    IN  propagateConstraint2(propagateConstraint1(st0, constraints, boardMask),
                             constraints, boardMask)

-----------------------------------------------------------------------------
(* applyAllConstraints as one step: the three waves in order, and within a *)
(* wave the nine units in mask order.  The units of a wave touch disjoint  *)
(* cells, so every interleaving of a wave ends in this board; the          *)
(* specification SpecWave below models the goroutines one by one and       *)
(* checks exactly that (WaveConfluent).                                    *)

\* One wave: the units of category cat, masks m..dim, in order.
RECURSIVE applyWave(_, _, _, _)
applyWave(acc0, constraints, cat, m) ==
    IF m > Len(masks[cat]) THEN acc0
    ELSE The({ applyWave([heap |-> r.heap, changes |-> acc.changes + r.changes],
                         constraints, cat, m + 1)
               : acc \in {acc0},
                 r \in {propagateConstraints(acc0.heap, constraints, masks[cat][m])} })

\* Mutant of applyWaves: the count starts again at 0 in every category
\* (changes = for changes +=), so only the changes of the boxes are returned.
RECURSIVE applyWavesReset(_, _, _)
applyWavesReset(acc0, constraints, cat) ==
    IF cat > Len(masks) THEN acc0
    ELSE The({ applyWavesReset(r, constraints, cat + 1)
               : r \in {applyWave([heap |-> acc0.heap, changes |-> 0], constraints, cat, 1)} })

RECURSIVE applyWaves(_, _, _)
applyWaves(acc0, constraints, cat) ==
    IF cat > Len(masks) THEN acc0
    ELSE The({ applyWaves(r, constraints, cat + 1)
               : r \in {applyWave(acc0, constraints, cat, 1)} })

\* Mutant of applyAllConstraints: the count returned is never zero.
applyAllConstraintsNonzero(h, constraints) ==
    The({ [heap |-> r.heap, changes |-> r.changes + 1]
          : r \in {applyWaves([heap |-> h, changes |-> 0], constraints, 1)} })

applyAllConstraints(h, constraints) ==
    applyWaves([heap |-> h, changes |-> 0], constraints, 1)

-----------------------------------------------------------------------------
(* Completion check and branch-cell selection *)

\* Mutant of checkCompletion: len(val) > 2 for len(val) > 1.
RECURSIVE checkCompletionLooseFrom(_, _, _)
checkCompletionLooseFrom(h, constraints, i) ==
    IF i > Len(constraints) THEN "complete"
    ELSE LET n == Cardinality(h[constraints[i]])
         IN  IF n = 0 THEN "invalid"
             ELSE IF n > 2 THEN "incomplete"
             ELSE checkCompletionLooseFrom(h, constraints, i + 1)

checkCompletionLoose(h, constraints) == checkCompletionLooseFrom(h, constraints, 1)

\* Mutant of checkCompletion: the test for an empty map left out.
RECURSIVE checkCompletionNoInvalidFrom(_, _, _)
checkCompletionNoInvalidFrom(h, constraints, i) ==
    IF i > Len(constraints) THEN "complete"
    ELSE IF Cardinality(h[constraints[i]]) > 1 THEN "incomplete"
    ELSE checkCompletionNoInvalidFrom(h, constraints, i + 1)

checkCompletionNoInvalid(h, constraints) ==
    checkCompletionNoInvalidFrom(h, constraints, 1)

\* checkCompletion: scans the cells in order and returns at the first cell
\* that is empty ("invalid": the error) or has more than one key
\* ("incomplete": false, nil); "complete" (true, nil) when it finds neither.
\* The loop returns at the first cell whose map does not hold exactly one key.
checkCompletion(h, constraints) ==
    LET stops == SelectSeq(constraints, LAMBDA a : Cardinality(h[a]) # 1)
    IN  IF stops = <<>> THEN "complete"
        ELSE IF h[Head(stops)] = {} THEN "invalid"
        ELSE "incomplete"

\* Mutant of getSearchCandidate: the sizes start at 3 instead of 2.
getSearchCandidateFrom3(h, constraints) ==
    LET sized(i) == {j \in 0..(Len(constraints) - 1) :
                        Cardinality(h[At(constraints, j)]) = i}
        sizes    == {i \in 3..dim : sized(i) # {}}
    IN  IF sizes = {} THEN -1
        ELSE LET i == CHOOSE x \in sizes : \A y \in sizes : x <= y
             IN  CHOOSE j \in sized(i) : \A k \in sized(i) : j <= k

\* The cells 0..80 in the order of the range over constraints.
CellOrder(constraints) == [n \in 1..Len(constraints) |-> n - 1]

\* Mutant of firstOfSize: len(elem) >= i for len(elem) == i.
firstOfSizeAtLeast(h, constraints, i) ==
    LET hits == SelectSeq(CellOrder(constraints),
                          LAMBDA j : Cardinality(h[At(constraints, j)]) >= i)
    IN  IF hits = <<>> THEN -1 ELSE Head(hits)

\* getSearchCandidate, inner loop: for j, elem := range constraints: the
\* first cell in range order with len(elem) == i, or -1 when there is none.
firstOfSize(h, constraints, i) ==
    LET hits == SelectSeq(CellOrder(constraints),
                          LAMBDA j : Cardinality(h[At(constraints, j)]) = i)
    IN  IF hits = <<>> THEN -1 ELSE Head(hits)

\* getSearchCandidate, outer loop: for i := i0; i <= dim; i++.
RECURSIVE getSearchCandidateFrom(_, _, _)
getSearchCandidateFrom(h, constraints, i0) ==
    The({ IF i > dim THEN -1
          ELSE The({ IF j # -1 THEN j
                     ELSE getSearchCandidateFrom(h, constraints, i + 1)
                     : j \in {firstOfSize(h, constraints, i)} })
          : i \in {i0} })

\* getSearchCandidate: for i := 2..dim, the first cell j (0-based) with
\* len = i; -1 stands for the error "No search candidates could be found".
getSearchCandidate(h, constraints) == getSearchCandidateFrom(h, constraints, 2)

-----------------------------------------------------------------------------
(* ValidatePuzzle.  The results are "true", "false", and "panic" for the   *)
(* run-time panic of an index out of range.                                *)

\* validateMask: seenBefore has dim+1 elements, indices 0..dim; the test
\*   puzzle[maskVal] != 0 && seenBefore[puzzle[maskVal]] == true
\* indexes seenBefore with every nonzero value.
RECURSIVE validateMaskFrom(_, _, _, _)
validateMaskFrom(p, mask, b, seenBefore) ==
    IF b > Len(mask) THEN "true"
    ELSE LET v == At(p, mask[b])
         IN  IF v # 0 /\ v \notin 0..dim THEN "panic"
             ELSE IF v # 0 /\ v \in seenBefore THEN "false"
             ELSE validateMaskFrom(p, mask, b + 1, seenBefore \cup {v})

\* Mutant of validateMask: the test puzzle[maskVal] != 0 left out, so that
\* a second zero counts as a duplicate.
RECURSIVE validateMaskZeroFrom(_, _, _, _)
validateMaskZeroFrom(p, mask, b, seenBefore) ==
    IF b > Len(mask) THEN "true"
    ELSE LET v == At(p, mask[b])
         IN  IF v \notin 0..dim THEN "panic"
             ELSE IF v \in seenBefore THEN "false"
             ELSE validateMaskZeroFrom(p, mask, b + 1, seenBefore \cup {v})

validateMaskZero(p, mask) == validateMaskZeroFrom(p, mask, 1, {})

validateMask(p, mask) == validateMaskFrom(p, mask, 1, {})

\* ValidatePuzzle: the length first, then every mask of every type in
\* order, returning at the first mask that does not validate.
RECURSIVE validateFrom(_, _, _)
validateFrom(p, maskType, m) ==
    IF maskType > Len(masks) THEN "true"
    ELSE IF m > Len(masks[maskType]) THEN validateFrom(p, maskType + 1, 1)
    ELSE LET r == validateMask(p, masks[maskType][m])
         IN  IF r # "true" THEN r
             ELSE validateFrom(p, maskType, m + 1)

ValidatePuzzle(p) ==
    IF Len(p) # dim * dim THEN "false" ELSE validateFrom(p, 1, 1)

-----------------------------------------------------------------------------
(* Inputs.  The puzzles given to SolvePuzzle are a complete valid grid     *)
(* with some groups of cells blanked and at most one clue overwritten.    *)

\* A complete valid grid, row by row.
SolvedGrid ==
    << 1, 2, 3, 4, 5, 6, 7, 8, 9,
       4, 5, 6, 7, 8, 9, 1, 2, 3,
       7, 8, 9, 1, 2, 3, 4, 5, 6,
       2, 3, 1, 6, 7, 4, 8, 9, 5,
       8, 7, 5, 9, 1, 2, 3, 6, 4,
       6, 9, 4, 5, 3, 8, 2, 1, 7,
       3, 1, 7, 2, 6, 5, 9, 4, 8,
       5, 4, 2, 8, 9, 7, 6, 3, 1,
       9, 6, 8, 3, 4, 1, 5, 7, 2 >>

\* The groups of cells (0-based) that may be blanked together: cell 0; the
\* rectangle 3, 5, 30, 32 (digits 4 and 6, exchangeable: two completions
\* when all four are blank); cells 6 and 18 (the 7s of row 0 and column 0);
\* the rectangle 9, 10, 63, 64 (digits 4 and 5); cells 1 and 27 (the 2s of
\* row 0 and column 0).
BlankGroups ==
    <<{0}, {3, 5, 30, 32}, {6, 18}, {9, 10, 63, 64}, {1, 27}>>

\* At most this many groups are blanked.
MaxGroups == 3

\* The overwritten clue <<cell, digit>>: a second 1 next to cell 0, a second
\* 2 next to cell 80, the exchanged digit of the first rectangle, a 7 at
\* cell 0.
Overwrites == {<<1, 1>>, <<79, 2>>, <<3, 6>>, <<0, 7>>}

BlankSets ==
    {UNION {BlankGroups[g] : g \in G} :
        G \in {H \in SUBSET (1..Len(BlankGroups)) : Cardinality(H) <= MaxGroups}}

MakePuzzle(B, ow) ==
    [i \in 1..Len(SolvedGrid) |->
        IF ow # <<>> /\ ow[1] = i - 1 THEN ow[2]
        ELSE IF (i - 1) \in B THEN 0
        ELSE SolvedGrid[i]]

Puzzles == {MakePuzzle(B, ow) : B \in BlankSets, ow \in {<<>>} \cup Overwrites}

-----------------------------------------------------------------------------
(* SolvePuzzle and solveBySearch as a state machine.  A frame of           *)
(* solveBySearch is [constraints, at, candidate, keys, ret]:               *)
(*   at = "propagate"  in the loop  for changed := true; changed; ...      *)
(*   at = "check"      before checkCompletion                              *)
(*   at = "branch"     in the loop  for key := range constraints[candidate]*)
(*   at = "ret"        returned; ret = [board, solved]                     *)

\* The other two specifications' variables while they are not in use.
WaveIdle ==
    /\ wave = [at |-> "idle"]
    /\ unit = <<>>
    /\ access = <<>>
    /\ changeChan = <<>>

ValIdle == [at |-> "idle"]

PropIdle == [at |-> "idle"]

NoRet == [board |-> <<>>, solved |-> FALSE]

Frame(constraints) ==
    [constraints |-> constraints, at |-> "propagate", candidate |-> -1,
     keys |-> {}, ret |-> NoRet]

Top == stack[Len(stack)]

SetTop(f) == [stack EXCEPT ![Len(stack)] = f]

Returned(f, board, ok) ==
    [f EXCEPT !.at = "ret", !.ret = [board |-> board, solved |-> ok]]

Init ==
    /\ \E p \in Puzzles : /\ slices = <<p>>
                          /\ puzzle0 = p
    /\ puzzle = 1
    /\ heap = <<>>
    /\ stack = <<>>
    /\ pc = "init"
    /\ result = 0
    /\ solved = FALSE
    /\ WaveIdle
    /\ vcall = ValIdle
    /\ prop = PropIdle

\* SolvePuzzle, line 49-50: constraints := puzzle2Constraints(puzzle), and
\* the call of solveBySearch(constraints).
SolveCall ==
    /\ pc = "init"
    /\ LET r == puzzle2Constraints(heap, slices[puzzle])
       IN  /\ heap' = r.heap
           /\ stack' = <<Frame(r.board)>>
    /\ pc' = "solving"
    /\ UNCHANGED <<slices, puzzle, puzzle0, result, solved>>
    /\ UNCHANGED <<waveVars, vcall, prop>>

\* solveBySearch, lines 93-96: one cycle of the fixed-point loop.
Propagate ==
    /\ pc = "solving" /\ Top.at = "propagate"
    /\ LET r == applyAllConstraints(heap, Top.constraints)
       IN  /\ heap' = r.heap
           /\ stack' = SetTop([Top EXCEPT !.at = IF r.changes > 0 THEN "propagate"
                                                                 ELSE "check"])
    /\ UNCHANGED <<slices, puzzle, puzzle0, pc, result, solved>>
    /\ UNCHANGED <<waveVars, vcall, prop>>

\* solveBySearch, lines 97-108: checkCompletion, then getSearchCandidate.
Check ==
    /\ pc = "solving" /\ Top.at = "check"
    /\ LET f == Top
           c == checkCompletion(heap, f.constraints)
           candidate == getSearchCandidate(heap, f.constraints)
       IN  stack' = SetTop(
             IF c = "invalid" THEN Returned(f, f.constraints, FALSE)
             ELSE IF c = "complete" THEN Returned(f, f.constraints, TRUE)
             ELSE IF candidate = -1 THEN Returned(f, f.constraints, FALSE)
             ELSE [f EXCEPT !.at = "branch", !.candidate = candidate,
                            !.keys = heap[At(f.constraints, candidate)]])
    /\ UNCHANGED <<slices, puzzle, puzzle0, heap, pc, result, solved>>
    /\ UNCHANGED <<waveVars, vcall, prop>>

\* Mutant of Branch: the branch cell is fixed in the node's own board, not
\* in the clone.
BranchInPlace ==
    /\ pc = "solving" /\ Top.at = "branch" /\ Top.keys # {}
    /\ \E key \in Top.keys :
         LET r == cloneBoard(heap, Top.constraints)
         IN  /\ heap' = [r.heap EXCEPT ![At(Top.constraints, Top.candidate)] = newConstraint(key)]
             /\ stack' = Append(SetTop([Top EXCEPT !.keys = @ \ {key}]), Frame(r.board))
    /\ UNCHANGED <<slices, puzzle, puzzle0, pc, result, solved>>
    /\ UNCHANGED <<waveVars, vcall, prop>>

\* solveBySearch, lines 109-112: the next key of the range over the map
\* (Go leaves the order of a map range unspecified: any remaining key),
\* the clone with the candidate cell fixed, and the recursive call.
Branch ==
    /\ pc = "solving" /\ Top.at = "branch" /\ Top.keys # {}
    /\ \E key \in Top.keys :
         LET r == cloneBoard(heap, Top.constraints)
         IN  /\ heap' = [r.heap EXCEPT ![At(r.board, Top.candidate)] = newConstraint(key)]
             /\ stack' = Append(SetTop([Top EXCEPT !.keys = @ \ {key}]), Frame(r.board))
    /\ UNCHANGED <<slices, puzzle, puzzle0, pc, result, solved>>
    /\ UNCHANGED <<waveVars, vcall, prop>>

\* solveBySearch, line 118: the range is over, return constraints, false.
Exhausted ==
    /\ pc = "solving" /\ Top.at = "branch" /\ Top.keys = {}
    /\ stack' = SetTop(Returned(Top, Top.constraints, FALSE))
    /\ UNCHANGED <<slices, puzzle, puzzle0, heap, pc, result, solved>>
    /\ UNCHANGED <<waveVars, vcall, prop>>

\* Mutant of Return: the test if solved of line 113 left out, so the caller
\* goes on with the range after a successful sub-search.
ReturnIgnoringSuccess ==
    /\ pc = "solving" /\ Top.at = "ret" /\ Len(stack) > 1
    /\ stack' = Append(SubSeq(stack, 1, Len(stack) - 2), stack[Len(stack) - 1])
    /\ heap' = IF Top.ret.solved THEN heap
                ELSE SubSeq(heap, 1, Top.constraints[1] - 1)
    /\ UNCHANGED <<slices, puzzle, puzzle0, pc, result, solved>>
    /\ UNCHANGED <<waveVars, vcall, prop>>

\* solveBySearch, lines 112-116: the recursive call returns to its caller:
\* on success the caller returns the returned board at once; on failure it
\* goes on with the range (the failed clone is garbage: its maps, the last
\* allocated, are dropped from the heap).
Return ==
    /\ pc = "solving" /\ Top.at = "ret" /\ Len(stack) > 1
    /\ LET child  == Top
           caller == stack[Len(stack) - 1]
           rest   == SubSeq(stack, 1, Len(stack) - 2)
       IN  IF child.ret.solved
           THEN /\ stack' = Append(rest, Returned(caller, child.ret.board, TRUE))
                /\ heap' = heap
           ELSE /\ stack' = Append(rest, caller)
                /\ heap' = SubSeq(heap, 1, child.constraints[1] - 1)
    /\ UNCHANGED <<slices, puzzle, puzzle0, pc, result, solved>>
    /\ UNCHANGED <<waveVars, vcall, prop>>

\* SolvePuzzle, line 51: return constraints2Puzzle(finalSet), solved.
SolveReturn ==
    /\ pc = "solving" /\ Top.at = "ret" /\ Len(stack) = 1
    /\ LET r == constraints2Puzzle(slices, heap, Top.ret.board)
       IN  /\ slices' = r.slices
           /\ result' = r.ref
    /\ solved' = Top.ret.solved
    /\ pc' = "done"
    /\ UNCHANGED <<puzzle, puzzle0, heap, stack>>
    /\ UNCHANGED <<waveVars, vcall, prop>>

Next ==
    \/ SolveCall
    \/ Propagate
    \/ Check
    \/ Branch
    \/ Exhausted
    \/ Return
    \/ SolveReturn

Spec == Init /\ [][Next]_vars

-----------------------------------------------------------------------------
(* The rules of the game, stated without the mask table. *)

Cells == 0..(dim * dim - 1)

RowCells(k) == {k * dim + j : j \in 0..(dim - 1)}
ColCells(k) == {j * dim + k : j \in 0..(dim - 1)}
BoxCells(k) ==
    {((k \div boxDim) * boxDim + r) * dim + (k % boxDim) * boxDim + c :
        r \in 0..(boxDim - 1), c \in 0..(boxDim - 1)}

\* The 27 groups: rows, columns, boxes.
Groups ==
    {RowCells(k) : k \in 0..(dim - 1)} \cup {ColCells(k) : k \in 0..(dim - 1)}
        \cup {BoxCells(k) : k \in 0..(dim - 1)}

\* g is a full grid in which every group holds each digit 1..dim exactly once.
IsSolution(g) ==
    /\ Len(g) = dim * dim
    /\ \A G \in Groups : {At(g, c) : c \in G} = 1..dim

\* Some group of p holds the same nonzero digit at two of its cells.
HasDuplicate(p) ==
    \E G \in Groups : \E c, d \in G : c # d /\ At(p, c) # 0 /\ At(p, c) = At(p, d)

\* The full grids that fill the zeros of g so that no filled cell repeats a
\* digit of one of its groups (filling the first zero with every digit that
\* none of its peers holds).
RECURSIVE Fill(_)
Fill(g) ==
    IF \A c \in Cells : At(g, c) # 0 THEN {g}
    ELSE LET c == CHOOSE x \in Cells : At(g, x) = 0 /\ \A y \in Cells : At(g, y) = 0 => x <= y
             peers == (UNION {G \in Groups : c \in G}) \ {c}
             free  == {v \in 1..dim : \A d \in peers : At(g, d) # v}
         IN  UNION {Fill([g EXCEPT ![c + 1] = v]) : v \in free}

\* The valid completions of puzzle p.
Completions(p) == {g \in Fill(p) : IsSolution(g)}

Done == pc = "done"

Result == slices[result]

-----------------------------------------------------------------------------
(* Claims about SolvePuzzle (specification Spec) *)

\* C1 (soundness): when SolvePuzzle returns solved = true, every row, column
\* and box of the returned grid holds each digit 1..9 exactly once, and
\* ValidatePuzzle accepts the grid.
C1_Soundness ==
    (Done /\ solved) => (IsSolution(Result) /\ ValidatePuzzle(Result) = "true")

\* A puzzle with more than one completion (the search had to branch) solved.
C1_Witness == Done /\ solved /\ Cardinality(Completions(puzzle0)) > 1

\* C2 (completeness): a puzzle that has a valid completion is solved; so
\* solved = false is returned only when there is none.
C2_Completeness == (Done /\ Completions(puzzle0) # {}) => solved

\* A puzzle with both rectangles blank (four completions) solved.
C2_Witness ==
    /\ Done /\ solved
    /\ \A c \in {3, 5, 30, 32, 9, 10, 63, 64} : At(puzzle0, c) = 0
    /\ Completions(puzzle0) # {}

\* C3: a solved result keeps every clue of the input; a complete valid grid
\* is returned unchanged with solved = true; a puzzle with exactly one
\* completion is returned as that completion.
C3_ResultExtendsInput ==
    Done =>
        /\ solved => \A c \in Cells : At(puzzle0, c) # 0 => At(Result, c) = At(puzzle0, c)
        /\ IsSolution(puzzle0) => (solved /\ Result = puzzle0)
        /\ Cardinality(Completions(puzzle0)) = 1 =>
              (solved /\ Result \in Completions(puzzle0))

\* A puzzle whose only completion is not the grid it was cut from, solved
\* (cell 3 holds the exchanged digit 6).
C3_Witness ==
    /\ Done /\ solved
    /\ At(puzzle0, 3) = 6 /\ At(puzzle0, 5) = 0
    /\ Result # SolvedGrid

\* C4: a puzzle in which some row, column or box holds a nonzero digit
\* twice is not solved.
C4_DuplicateFails == (Done /\ HasDuplicate(puzzle0)) => ~solved

\* The duplicate in the last row (cells 79 and 80 both 2) with the first
\* rectangle blank: not solved.
C4_Witness ==
    /\ Done /\ ~solved
    /\ At(puzzle0, 79) = 2 /\ At(puzzle0, 80) = 2 /\ At(puzzle0, 3) = 0
    /\ HasDuplicate(puzzle0)

\* C7: SolvePuzzle never changes the caller's puzzle, and the slice it
\* returns is not the caller's.
C7_InputNotMutated == slices[puzzle] = puzzle0 /\ (Done => result # puzzle)

\* A failed call whose returned grid differs from the input: the input is
\* still as it was given.
C7_Witness == Done /\ ~solved /\ Result # puzzle0 /\ slices[puzzle] = puzzle0

\* The classification of a board as section 4.4 of the specification gives
\* it: invalid when any cell is empty, complete when every cell has one
\* candidate, incomplete otherwise.
Classification(h, constraints) ==
    IF \E i \in 1..Len(constraints) : h[constraints[i]] = {} THEN "invalid"
    ELSE IF \A i \in 1..Len(constraints) : Cardinality(h[constraints[i]]) = 1
    THEN "complete"
    ELSE "incomplete"

\* C10: checkCompletion reports Invalid whenever any cell is empty, at
\* whatever index; Complete when every cell is a singleton; Incomplete only
\* when no cell is empty and some cell has two or more candidates.
C10_ThreeWay ==
    (pc = "solving" /\ Top.at = "check") =>
        checkCompletion(heap, Top.constraints) = Classification(heap, Top.constraints)

-----------------------------------------------------------------------------
(* One call of ValidatePuzzle (specification SpecValidate) *)

\* The lengths other than dim*dim that are tried.
WrongLengths == {0, 1, dim * dim - 1, dim * dim + 1}

\* All zeros but the given cells: cells is a set of <<cell, value>>.
Sparse(cells) ==
    [i \in 1..(dim * dim) |->
        IF \E cv \in cells : cv[1] = i - 1
        THEN (CHOOSE cv \in cells : cv[1] = i - 1)[2]
        ELSE 0]

\* Two equal digits: in one row only, one column only, one box only (first
\* and last box), in one row and box, and in no common group.
TwoClues ==
    {Sparse({<<cd[1], 5>>, <<cd[2], 5>>}) :
        cd \in {<<0, 8>>, <<0, 72>>, <<0, 10>>, <<70, 80>>, <<0, 1>>, <<0, 40>>}}

\* Values outside 0..dim at the first, a middle and the last cell of: the
\* empty puzzle, the complete grid, and a puzzle whose row 0 repeats a digit.
OutOfRange ==
    {[p EXCEPT ![c + 1] = v] :
        p \in {Sparse({}), SolvedGrid, MakePuzzle({}, <<1, 1>>)},
        c \in {0, 40, 80},
        v \in {-1, dim + 1}}

\* Zeros, and the leading part of the grid (extended by zeros), at the
\* wrong lengths.
WrongLength ==
    {[i \in 1..n |-> 0] : n \in WrongLengths}
        \cup {[i \in 1..n |-> IF i <= Len(SolvedGrid) THEN SolvedGrid[i] ELSE 0] :
                n \in WrongLengths}

ValidateInputs == Puzzles \cup TwoClues \cup OutOfRange \cup WrongLength

SolverIdle ==
    /\ heap = <<>>
    /\ stack = <<>>
    /\ pc = "idle"
    /\ result = 0
    /\ solved = FALSE

InitValidate ==
    /\ \E p \in ValidateInputs : /\ slices = <<p>>
                                 /\ puzzle0 = p
    /\ puzzle = 1
    /\ vcall = [at |-> "call", ret |-> "none"]
    /\ SolverIdle
    /\ WaveIdle
    /\ prop = PropIdle

\* ValidatePuzzle(puzzle), lines 291-303.
Validate ==
    /\ vcall.at = "call"
    /\ vcall' = [at |-> "returned", ret |-> ValidatePuzzle(slices[puzzle])]
    /\ UNCHANGED <<solverVars, waveVars, prop>>

NextValidate == Validate

SpecValidate == InitValidate /\ [][NextValidate]_vars

InRange(p) == \A i \in 1..Len(p) : p[i] \in 0..dim

\* C5: on digits 0..9 ValidatePuzzle returns true exactly when the length
\* is 81 and no row, column or box holds a nonzero digit twice (zeros
\* never count); any other length gives false, whatever the contents.
C5_ValidateIff ==
    (vcall.at = "returned" /\ InRange(puzzle0)) =>
        /\ vcall.ret \in {"true", "false"}
        /\ vcall.ret = "true" <=>
              (Len(puzzle0) = dim * dim /\ ~HasDuplicate(puzzle0))

\* A puzzle with zeros whose only repeated digit is in one box, rejected.
C5_Witness ==
    /\ vcall.at = "returned" /\ vcall.ret = "false"
    /\ Len(puzzle0) = dim * dim /\ InRange(puzzle0)
    /\ At(puzzle0, 70) = 5 /\ At(puzzle0, 80) = 5 /\ At(puzzle0, 0) = 0

\* C6: ValidatePuzzle returns false, as a normal boolean result, for every
\* 81-length puzzle that holds a value outside 0..9.
C6_OutOfRangeFalse ==
    (vcall.at = "returned" /\ Len(puzzle0) = dim * dim /\ ~InRange(puzzle0)) =>
        vcall.ret = "false"

-----------------------------------------------------------------------------
(* SpecWave: one call of applyAllConstraints, goroutine by goroutine.  The *)
(* caller starts the nine goroutines of a category one by one and then     *)
(* receives dim values from changeChan; a goroutine runs                   *)
(* propagateConstraints on its mask and sends the result.  A goroutine's   *)
(* run is one step: the cells it indexes are those of its mask whatever    *)
(* the other goroutines do, so the cells recorded in access do not depend  *)
(* on how finely the runs interleave.                                      *)

\* The goroutines of one call: <<category, m>> runs masks[category][m].
Units == {<<c, m>> : c \in 1..Len(masks), m \in 1..dim}

MaskOf(u) == masks[u[1]][u[2]]

\* The cells of each unit's mask, as a table.
MaskCellsOf == [u \in Units |-> {MaskOf(u)[b] : b \in 1..Len(MaskOf(u))}]

MaskCells(u) == MaskCellsOf[u]

\* The masks of one category are pairwise disjoint.
MasksDisjoint ==
    \A c \in 1..Len(masks) : \A m \in 1..dim : \A n \in 1..dim :
        m # n => MaskCells(<<c, m>>) \cap MaskCells(<<c, n>>) = {}

\* changeChan := make(chan int, dim)
chanCap == dim

\* Mutant of recvCount: the caller receives one value too few.
recvCountShort == dim - 1

\* for i := 0; i < dim; i++ { changes += <-changeChan }
recvCount == dim

\* Boards for one propagation cycle.  Nine clues, one in every row, column
\* and box: every unit of every wave deletes candidates (Rule A).  Eight
\* 1s in rows 0..7 and columns 0..7: the row wave and Rule A of the column
\* wave leave cell 80 as the only cell of column 8 that permits 1, and
\* Rule B forces it.
WaveInputs ==
    {Sparse({<<0, 1>>, <<12, 2>>, <<24, 3>>, <<28, 4>>, <<40, 5>>,
             <<52, 6>>, <<56, 7>>, <<68, 8>>, <<80, 9>>}),
     Sparse({<<7, 1>>, <<12, 1>>, <<18, 1>>, <<28, 1>>, <<42, 1>>,
             <<49, 1>>, <<59, 1>>, <<65, 1>>})}

InitWave ==
    /\ \E p \in WaveInputs :
          LET c == puzzle2Constraints(<<>>, p)
          IN  /\ slices = <<p>>
              /\ puzzle0 = p
              /\ heap = c.heap
              /\ wave = [at |-> "loop", category |-> 1, spawned |-> 0,
                         received |-> 0, changes |-> 0, runs |-> 0,
                         constraints |-> c.board, heap0 |-> c.heap, ret |-> 0]
    /\ puzzle = 1
    /\ stack = <<>>
    /\ pc = "idle"
    /\ result = 0
    /\ solved = FALSE
    /\ unit = [u \in Units |-> "none"]
    /\ access = [u \in Units |-> [rd |-> {}, wr |-> {}]]
    /\ changeChan = <<>>
    /\ vcall = ValIdle
    /\ prop = PropIdle

\* go func(constraints, mask) { ... }(constraints, mask), lines 173-177.
Go ==
    /\ wave.at = "loop"
    /\ wave.spawned < Len(masks[wave.category])
    /\ unit' = [unit EXCEPT ![<<wave.category, wave.spawned + 1>>] = "running"]
    /\ wave' = [wave EXCEPT !.spawned = @ + 1]
    /\ UNCHANGED <<slices, puzzle, puzzle0, heap, stack, pc, result, solved,
                   access, changeChan, vcall, prop>>

\* changeChan <- propagateConstraints(constraints, mask), line 175.
Run(u) ==
    /\ unit[u] = "running"
    /\ Len(changeChan) < chanCap
    /\ LET r == propagateConstraints(heap, wave.constraints, MaskOf(u))
       IN  /\ heap' = r.heap
           /\ access' = [access EXCEPT ![u] = [rd |-> r.rd, wr |-> r.wr]]
           /\ changeChan' = Append(changeChan, r.changes)
    /\ unit' = [unit EXCEPT ![u] = "done"]
    /\ wave' = [wave EXCEPT !.runs = @ + 1]
    /\ UNCHANGED <<slices, puzzle, puzzle0, stack, pc, result, solved, vcall, prop>>

\* changes += <-changeChan, lines 178-180.
Receive ==
    /\ wave.at = "loop"
    /\ wave.spawned = Len(masks[wave.category])
    /\ wave.received < recvCount
    /\ changeChan # <<>>
    /\ wave' = [wave EXCEPT !.changes = @ + Head(changeChan),
                            !.received = @ + 1]
    /\ changeChan' = Tail(changeChan)
    /\ UNCHANGED <<slices, puzzle, puzzle0, heap, stack, pc, result, solved,
                   unit, access, vcall, prop>>

\* The next iteration of for _, category := range masks, line 172.
NextCategory ==
    /\ wave.at = "loop"
    /\ wave.spawned = Len(masks[wave.category])
    /\ wave.received = recvCount
    /\ wave.category < Len(masks)
    /\ wave' = [wave EXCEPT !.category = @ + 1, !.spawned = 0, !.received = 0]
    /\ UNCHANGED <<slices, puzzle, puzzle0, heap, stack, pc, result, solved,
                   unit, access, changeChan, vcall, prop>>

\* return changes, line 182.
WaveReturn ==
    /\ wave.at = "loop"
    /\ wave.spawned = Len(masks[wave.category])
    /\ wave.received = recvCount
    /\ wave.category = Len(masks)
    /\ wave' = [wave EXCEPT !.at = "returned", !.ret = wave.changes]
    /\ UNCHANGED <<slices, puzzle, puzzle0, heap, stack, pc, result, solved,
                   unit, access, changeChan, vcall, prop>>

NextWave ==
    \/ Go
    \/ \E u \in Units : Run(u)
    \/ Receive
    \/ NextCategory
    \/ WaveReturn

SpecWave == InitWave /\ [][NextWave]_vars

\* The cells of the group a unit stands for: category 1 is the rows,
\* category 2 the columns, category 3 the boxes.
GroupCellsOf ==
    [u \in Units |-> CASE u[1] = 1 -> RowCells(u[2] - 1)
                      [] u[1] = 2 -> ColCells(u[2] - 1)
                      [] u[1] = 3 -> BoxCells(u[2] - 1)]

GroupCells(u) == GroupCellsOf[u]

\* Every interleaving of the goroutines ends in the board and the count that
\* the one-step applyAllConstraints of Spec computes.
WaveConfluent ==
    wave.at = "returned" =>
        LET r == applyAllConstraints(wave.heap0, wave.constraints)
        IN  heap = r.heap /\ wave.ret = r.changes

\* C8: a propagation cycle runs exactly 27 units in three waves, rows, then
\* columns, then boxes; no unit of a later wave starts before every unit of
\* the waves before it has finished (its writes included), and the call
\* returns only after all 27 units have finished.
C8_WaveBarrier ==
    /\ Cardinality(Units) = 27
    /\ \A u \in Units : \A v \in Units :
          (u[1] < v[1] /\ unit[v] # "none") => unit[u] = "done"
    /\ \A u \in Units :
          unit[u] = "done" => (access[u].rd \cup access[u].wr) \subseteq GroupCells(u)
    /\ wave.runs = Cardinality({u \in Units : unit[u] = "done"})
    /\ wave.at = "returned" =>
          /\ \A u \in Units : unit[u] = "done"
          /\ wave.runs = 27
          /\ changeChan = <<>>

\* The call has returned, and a unit of each wave has written to the board.
C8_Witness ==
    /\ wave.at = "returned"
    /\ wave.ret > 0
    /\ \A c \in 1..3 : \E u \in Units : u[1] = c /\ access[u].wr # {}

\* C9: no unit reads or writes a cell that another unit of the same wave
\* writes: each unit touches only the cells of its own mask, and the nine
\* masks of a family are pairwise disjoint.
C9_RaceFree ==
    \A c \in 1..Len(masks) : \A m \in 1..dim : \A n \in 1..dim :
        LET u == <<c, m>>
            v == <<c, n>>
        IN  /\ (access[u].rd \cup access[u].wr) \subseteq MaskCells(u)
            /\ m # n =>
                  access[u].wr \cap (access[v].rd \cup access[v].wr) = {}
            /\ MasksDisjoint

\* Two units of one wave have both written to the board, while a third
\* unit of that wave has been started and has not run yet.
C9_Witness ==
    \E c \in 1..Len(masks) : \E m \in 1..dim : \E n \in 1..dim : \E k \in 1..dim :
        /\ m # n
        /\ unit[<<c, m>>] = "done" /\ access[<<c, m>>].wr # {}
        /\ unit[<<c, n>>] = "done" /\ access[<<c, n>>].wr # {}
        /\ unit[<<c, k>>] = "running"

\* The unit of column 8 has forced cell 80 by Rule B (it replaces the cell's
\* map) while the unit of column 0 has run and the unit of column 1 has not.
WaveRuleBWritten ==
    /\ unit[<<2, 9>>] = "done" /\ 80 \in access[<<2, 9>>].wr
    /\ Cardinality(heap[wave.constraints[81]]) = 1
    /\ puzzle0[81] = 0
    /\ unit[<<2, 1>>] = "done" /\ unit[<<2, 2>>] = "running"

-----------------------------------------------------------------------------
(* Claims about the search nodes of solveBySearch (specification Spec) *)

\* The board of frame f holds a cell with no candidate left.
DeadBoard(h, constraints) ==
    \E i \in 1..Len(constraints) : h[constraints[i]] = {}

\* C11: solveBySearch never branches on a dead board: a search node whose
\* board holds an empty candidate set after the fixed-point propagation
\* returns failure at once; it selects no cell, clones no board and does not
\* recurse, so no frame is ever at its branch loop with a dead board.
C11_NoBranchOnDeadBoard ==
    \A i \in 1..Len(stack) :
        stack[i].at = "branch" => ~DeadBoard(heap, stack[i].constraints)

-----------------------------------------------------------------------------
(* SpecProp: one propagation step on a board.  The board is that of a       *)
(* puzzle, as puzzle2Constraints builds it, after zero or more propagation *)
(* cycles; the step is Rule A on one mask, Rule B on one mask, or a whole   *)
(* cycle of applyAllConstraints.                                            *)

\* The number of cycles run on the board before the step is at most MaxPre.
MaxPre == 1

\* k cycles of applyAllConstraints on the board.
RECURSIVE cycles(_, _, _)
cycles(h, constraints, k) ==
    IF k = 0 THEN h
    ELSE The({ cycles(r.heap, constraints, k - 1)
               : r \in {applyAllConstraints(h, constraints)} })

StepStart(h) == [heap |-> h, changes |-> 0, rd |-> {}, wr |-> {}]

InitProp ==
    /\ \E p \in Puzzles : \E k \in 0..MaxPre :
          LET c == puzzle2Constraints(<<>>, p)
          IN  /\ slices = <<p>>
              /\ puzzle0 = p
              /\ heap = cycles(c.heap, c.board, k)
              /\ prop = [at |-> "ready", op |-> "none", unit |-> <<0, 0>>,
                         board |-> c.board, heap0 |-> <<>>, changes |-> 0]
    /\ puzzle = 1
    /\ stack = <<>>
    /\ pc = "idle"
    /\ result = 0
    /\ solved = FALSE
    /\ WaveIdle
    /\ vcall = ValIdle

Applied(op, u, h, changes) ==
    /\ heap' = h
    /\ prop' = [prop EXCEPT !.at = "applied", !.op = op, !.unit = u,
                            !.heap0 = heap, !.changes = changes]
    /\ UNCHANGED <<slices, puzzle, puzzle0, stack, pc, result, solved,
                   waveVars, vcall>>

\* propagateConstraint1(constraints, mask) on the mask of unit u.
ApplyRuleA(u) ==
    /\ prop.at = "ready"
    /\ LET st == propagateConstraint1(StepStart(heap), prop.board, MaskOf(u))
       IN  Applied("A", u, st.heap, st.changes)

\* propagateConstraint2(constraints, mask) on the mask of unit u.
ApplyRuleB(u) ==
    /\ prop.at = "ready"
    /\ LET st == propagateConstraint2(StepStart(heap), prop.board, MaskOf(u))
       IN  Applied("B", u, st.heap, st.changes)

\* applyAllConstraints(constraints).
ApplyCycle ==
    /\ prop.at = "ready"
    /\ LET r == applyAllConstraints(heap, prop.board)
       IN  Applied("cycle", <<0, 0>>, r.heap, r.changes)

NextProp ==
    \/ \E u \in Units : ApplyRuleA(u)
    \/ \E u \in Units : ApplyRuleB(u)
    \/ ApplyCycle

SpecProp == InitProp /\ [][NextProp]_vars

\* The candidate set of cell c (0-based) before and after the step.
Before(c) == prop.heap0[At(prop.board, c)]
Now(c) == heap[At(prop.board, c)]

-----------------------------------------------------------------------------
(* Claims about the propagation rules (specification SpecProp) *)

\* A board as a function from the cells 0..80 to candidate sets.
BoardOf(h, constraints) == [c \in Cells |-> h[At(constraints, c)]]

\* Rule B as stated, for the digits v..dim in turn on the cells G of a
\* group: when exactly one cell of G carries v and it is not a singleton,
\* that cell becomes {v}; otherwise nothing changes for v.
RECURSIVE RuleBFrom(_, _, _)
RuleBFrom(b, G, v) ==
    IF v > dim THEN b
    ELSE LET carriers == {c \in G : v \in b[c]}
         IN  IF Cardinality(carriers) = 1 /\ Cardinality(b[OnlyKey(carriers)]) > 1
             THEN RuleBFrom([b EXCEPT ![OnlyKey(carriers)] = {v}], G, v + 1)
             ELSE RuleBFrom(b, G, v + 1)

\* C12: propagateConstraint2 on a group reduces, for each digit v in turn,
\* the only cell that carries v to {v} when that cell is not a singleton,
\* whatever the index 0..80 of the cell, and changes nothing else.
C12_RuleB ==
    (prop.at = "applied" /\ prop.op = "B") =>
        BoardOf(heap, prop.board)
            = RuleBFrom(BoardOf(prop.heap0, prop.board), MaskCells(prop.unit), 1)

\* Rule A as stated, visiting the cells of the mask from position a on: a
\* cell that is a singleton {v} when it is visited has v removed from every
\* other cell of the mask; nothing else is removed.
RECURSIVE RuleAFrom(_, _, _)
RuleAFrom(b, boardMask, a) ==
    IF a > Len(boardMask) THEN b
    ELSE LET cur == boardMask[a]
             others == {boardMask[n] : n \in 1..Len(boardMask)} \ {cur}
         IN  IF Cardinality(b[cur]) # 1 THEN RuleAFrom(b, boardMask, a + 1)
             ELSE RuleAFrom([c \in Cells |-> IF c \in others THEN b[c] \ b[cur]
                                                             ELSE b[c]],
                            boardMask, a + 1)

\* No group holds a singleton cell {v} together with another cell that
\* still carries v.
SinglesPropagated(b) ==
    \A G \in Groups : \A c \in G : \A d \in G :
        (c # d /\ Cardinality(b[c]) = 1) => b[c] \cap b[d] = {}

\* C13: propagateConstraint1 on a group removes the digit of every cell that
\* is a singleton when it is visited from every other cell of the group and
\* removes nothing else; a board on which a cycle reports no change holds
\* no singleton {v} in a group with another cell that still carries v.
C13_RuleA ==
    /\ (prop.at = "applied" /\ prop.op = "A") =>
          BoardOf(heap, prop.board)
              = RuleAFrom(BoardOf(prop.heap0, prop.board), MaskOf(prop.unit), 1)
    /\ (prop.at = "applied" /\ prop.op = "cycle" /\ prop.changes = 0) =>
          SinglesPropagated(BoardOf(heap, prop.board))

\* Rule A has run on a mask in which a cell became a singleton during the
\* pass and, visited after that, had its digit removed from another cell.
C13_Witness ==
    /\ prop.at = "applied" /\ prop.op = "A"
    /\ \E c \in MaskCells(prop.unit) : \E d \in MaskCells(prop.unit) :
          /\ c # d
          /\ Cardinality(Before(c)) > 1 /\ Cardinality(Now(c)) = 1
          /\ Now(c) \subseteq Before(d) /\ Now(c) \cap Now(d) = {}
          /\ \A e \in MaskCells(prop.unit) : Before(e) # Now(c)

\* A cycle has reported no change on a board with a cell that the puzzle
\* left blank and propagation has reduced to a singleton.
FixedPointReached ==
    /\ prop.at = "applied" /\ prop.op = "cycle" /\ prop.changes = 0
    /\ \E c \in Cells : At(puzzle0, c) = 0 /\ Cardinality(Now(c)) = 1

\* The full grid S places at every cell a digit of the cell's candidate set.
Permits(b, S) == \A c \in Cells : At(S, c) \in b[c]

\* C14: propagation is sound.  Every full valid grid that the board permits
\* before a step (Rule A or Rule B on a mask, or a whole cycle) is still
\* permitted after it.  (A board that comes from a puzzle only permits
\* grids that complete the puzzle.)
C14_PropagationSound ==
    prop.at = "applied" =>
        \A S \in Completions(puzzle0) :
            Permits(BoardOf(prop.heap0, prop.board), S)
                => Permits(BoardOf(heap, prop.board), S)

\* Rule B has forced a cell on a board that permits two or more valid grids.
C14_Witness ==
    /\ prop.at = "applied" /\ prop.op = "B" /\ prop.changes > 0
    /\ Cardinality({S \in Completions(puzzle0) :
                        Permits(BoardOf(heap, prop.board), S)}) >= 2

\* The number of candidates on board b: the pairs of a cell and a digit
\* that the cell carries.
Candidates(b) == Cardinality({cv \in Cells \X (1..dim) : cv[2] \in b[cv[1]]})

\* C15: the number a step returns (a whole cycle of applyAllConstraints, or
\* one rule on one mask) is the number of candidates it removed from the
\* board, no cell gains a candidate, and the number is 0 exactly when the
\* board is unchanged.
C15_ChangeCount ==
    prop.at = "applied" =>
        LET b0 == BoardOf(prop.heap0, prop.board)
            b1 == BoardOf(heap, prop.board)
        IN  /\ \A c \in Cells : b1[c] \subseteq b0[c]
            /\ prop.changes = Candidates(b0) - Candidates(b1)
            /\ prop.changes = 0 <=> b1 = b0

\* A cycle has returned on the board of the grid with cells 6 and 18 blank
\* and cell 1 overwritten with 1: Rule A removes 18 candidates and Rule B
\* one, and the cycle returns 19.
C15_Witness ==
    /\ prop.at = "applied" /\ prop.op = "cycle" /\ prop.changes = 19
    /\ puzzle0 = MakePuzzle({6, 18}, <<1, 1>>)
    /\ Cardinality(Before(6)) = dim

-----------------------------------------------------------------------------
(* Termination of SolvePuzzle (specification SpecLive) *)

\* The puzzles of the termination check: the grid, the grid without one
\* rectangle (two solutions), without both rectangles (four), and without
\* both and cell 0; each as it is and with each overwritten cell (no
\* solution: a failure at once, or after a search of every branch).
LiveBlankSets ==
    {{},
     BlankGroups[2],
     BlankGroups[2] \cup BlankGroups[4],
     BlankGroups[1] \cup BlankGroups[2] \cup BlankGroups[4]}

LivePuzzles == {MakePuzzle(B, ow) : B \in LiveBlankSets, ow \in {<<>>} \cup Overwrites}

InitLive ==
    /\ \E p \in LivePuzzles : /\ slices = <<p>>
                              /\ puzzle0 = p
    /\ puzzle = 1
    /\ heap = <<>>
    /\ stack = <<>>
    /\ pc = "init"
    /\ result = 0
    /\ solved = FALSE
    /\ WaveIdle
    /\ vcall = ValIdle
    /\ prop = PropIdle

\* SolvePuzzle runs on one goroutine that is never suspended for ever: a
\* step that can be taken is eventually taken.
SpecLive == InitLive /\ [][Next]_vars /\ WF_vars(Next)

\* The number of blank cells of puzzle p.
Blanks(p) == Cardinality({c \in Cells : At(p, c) = 0})

\* The number of candidates on the board of the innermost search node.
TopCandidates == Candidates(BoardOf(heap, Top.constraints))

\* A cycle of the propagation loop of the innermost node that reports
\* changes (the loop goes on) strictly lowers the node's candidate count.
CycleLowers ==
    (/\ pc = "solving" /\ Top.at = "propagate"
     /\ Len(stack') = Len(stack) /\ Top'.at = "propagate")
        => TopCandidates' < TopCandidates

\* C16: SolvePuzzle eventually returns.  Every cycle of a node's propagation
\* loop that reports changes strictly lowers the candidate count, so the
\* loop ends; the recursion is never deeper than one node per blank cell of
\* the puzzle plus the root.
C16_Termination ==
    /\ <>Done
    /\ [][CycleLowers]_vars
    /\ [](Len(stack) <= 1 + Blanks(puzzle0))

\* SolvePuzzle has returned a solution of a puzzle with several solutions:
\* it has branched and recursed.
C16_Witness ==
    /\ Done /\ solved
    /\ Cardinality(Completions(puzzle0)) >= 2

\* The join of a wave never blocks (specification SpecWave): a unit that is
\* to send finds room in changeChan, and while the caller waits for a value
\* either one is in the channel or a unit that will send it is running.
WaveJoinNeverBlocks ==
    /\ \A u \in Units : unit[u] = "running" => Len(changeChan) < chanCap
    /\ (/\ wave.at = "loop"
        /\ wave.spawned = Len(masks[wave.category])
        /\ wave.received < recvCount
        /\ changeChan = <<>>)
          => \E u \in Units : unit[u] = "running"

-----------------------------------------------------------------------------
(* Claims about the fixed point and the clones (specification Spec) *)

\* C17: a board on which a cycle of applyAllConstraints has just returned 0
\* (the propagation loop of a search node has ended) is a fixed point: one
\* more cycle returns 0 and leaves every candidate set unchanged.
C17_FixedPointIdempotent ==
    (pc = "solving" /\ Top.at = "check") =>
        \A r \in {applyAllConstraints(heap, Top.constraints)} :
            r.changes = 0 /\ r.heap = heap

\* The propagation loop of a clone has ended on a board that is neither
\* complete nor dead, after propagation on the clone.
C17_Witness ==
    /\ pc = "solving" /\ Top.at = "check" /\ Len(stack) > 1
    /\ Classification(heap, Top.constraints) = "incomplete"
    /\ \E c \in Cells :
          heap[At(Top.constraints, c)] # heap[At(stack[Len(stack) - 1].constraints, c)]

\* The maps (heap addresses) of the board of frame i.
MapsOf(i) == {stack[i].constraints[c] : c \in 1..Len(stack[i].constraints)}

\* A step leaves the candidate sets of the board of every frame below the
\* innermost one as they are: the boards of which a clone is being searched.
OriginalsUntouched ==
    \A i \in 1..(Len(stack) - 1) :
        i <= Len(stack') =>
            /\ stack'[i].constraints = stack[i].constraints
            /\ \A a \in MapsOf(i) : heap'[a] = heap[a]

\* C18: clone isolation.  A board and its clone share no map, so whatever
\* is done to the clone (fixing the branch cell, propagation, the search
\* below it) leaves every candidate set of the original as it was, and the
\* clone is not changed through the original.
C18_CloneIsolation ==
    /\ [][OriginalsUntouched]_vars
    /\ [](\A i \in 1..Len(stack) : \A j \in 1..Len(stack) :
             i # j => MapsOf(i) \cap MapsOf(j) = {})

\* A clone of a clone is being searched, and propagation has changed it in
\* cells other than the branch cell.
C18_Witness ==
    /\ pc = "solving" /\ Len(stack) >= 3 /\ Top.at = "check"
    /\ \E c \in Cells :
          /\ c # stack[Len(stack) - 1].candidate
          /\ heap[At(Top.constraints, c)] # heap[At(stack[Len(stack) - 1].constraints, c)]

\* The cells of the board with i candidates.
CellsOfSize(h, constraints, i) ==
    {c \in Cells : Cardinality(h[At(constraints, c)]) = i}

\* The least element of a nonempty set of integers.
Least(S) == CHOOSE x \in S : \A y \in S : x <= y

\* C19 (on the boards of SpecProp, before and after a step):
\* getSearchCandidate returns the cell of the smallest size among the
\* cells of size 2..9, and the lowest index among the cells of that size;
\* it reports an error (-1) only when no cell has size 2 or more, and that
\* never happens on a board that checkCompletion reported as incomplete.
C19_BranchCell ==
    prop.at \in {"ready", "applied"} =>
        LET sizes  == {n \in 2..dim : CellsOfSize(heap, prop.board, n) # {}}
            chosen == getSearchCandidate(heap, prop.board)
        IN  /\ sizes = {} <=> chosen = -1
            /\ sizes # {} => chosen = Least(CellsOfSize(heap, prop.board, Least(sizes)))
            /\ checkCompletion(heap, prop.board) = "incomplete" => chosen # -1

\* A board reported as incomplete whose first cell with two or more
\* candidates is not a cell of the smallest size: the cell chosen comes
\* after a larger cell.
C19_Witness ==
    /\ prop.at = "applied"
    /\ checkCompletion(heap, prop.board) = "incomplete"
    /\ \E c \in Cells :
          /\ c < getSearchCandidate(heap, prop.board)
          /\ Cardinality(Now(c)) > Cardinality(Now(getSearchCandidate(heap, prop.board)))

-----------------------------------------------------------------------------
(* Claim about the order of the branch values (specification Spec) *)

\* A step of the range of lines 109-112: the top frame hands one of its
\* remaining keys to a new frame.
BranchStep ==
    /\ pc = "solving" /\ stack # <<>>
    /\ Top.at = "branch"
    /\ Len(stack') = Len(stack) + 1

\* The key the step took from the remaining keys of the branching frame.
KeysTaken == Top.keys \ stack'[Len(stack)].keys

\* C20 (branch value order): at every branch node the remaining candidate
\* values of the chosen cell are tried in ascending order (each step of the
\* range takes the least remaining key), so the solution returned holds, at
\* the branch cell of the first node, the smallest value that leads to a
\* solution.
C20_AscendingBranchOrder ==
    /\ [][BranchStep => \A key \in KeysTaken : \A other \in Top.keys : key <= other]_vars
    /\ [](Done /\ solved /\ stack[1].candidate # -1 =>
             \A g \in Completions(puzzle0) :
                 At(Result, stack[1].candidate) <= At(g, stack[1].candidate))

-----------------------------------------------------------------------------
(* Claims about the returns of solveBySearch (specification Spec) *)

\* The innermost call of solveBySearch has returned success.
SuccessReturned ==
    /\ pc = "solving" /\ stack # <<>>
    /\ Top.at = "ret" /\ Top.ret.solved

\* C21 (first success wins): once the recursion for one candidate value has
\* returned success, the next step of the caller is its own return of that
\* same board with success; no map is allocated (no board cloned) and no
\* frame is opened (no candidate or sibling explored) from then on.
C21_FirstSuccessWins ==
    [][SuccessReturned =>
          /\ Len(heap') = Len(heap)
          /\ Len(stack') <= Len(stack)
          /\ Len(stack) > 1 =>
                /\ Len(stack') = Len(stack) - 1
                /\ stack'[Len(stack')].at = "ret"
                /\ stack'[Len(stack')].ret = Top.ret]_vars

\* A node that has returned its branch's success while candidate values of
\* its branch cell were still untried.
C21_Witness ==
    /\ SuccessReturned
    /\ Top.candidate # -1
    /\ Top.keys # {}

\* The loop of lines 93-96 run to its end: the heap when a cycle reports no
\* change.
RECURSIVE fixedPoint(_, _)
fixedPoint(h, constraints) ==
    The({ IF r.changes > 0 THEN fixedPoint(r.heap, constraints) ELSE r.heap
          : r \in {applyAllConstraints(h, constraints)} })

\* The grid constraints2Puzzle makes of the puzzle's board after the first
\* propagation to the fixed point.
PropagatedGrid(p) ==
    LET c == puzzle2Constraints(<<>>, p)
        h == fixedPoint(c.heap, c.board)
    IN  [i \in 1..Len(p) |-> puzzleValue(h[c.board[i]])]

\* A step keeps the board of every node that is in its range over the
\* candidate values as the node's propagation left it.
BranchingBoardsKept ==
    \A i \in 1..Len(stack) :
        (stack[i].at = "branch" /\ i <= Len(stack')) =>
            /\ stack'[i].constraints = stack[i].constraints
            /\ \A a \in MapsOf(i) : heap'[a] = heap[a]

\* The step in which a node leaves its range with every branch failed.
AllBranchesFailed ==
    /\ pc = "solving" /\ stack # <<>>
    /\ Top.at = "branch"
    /\ Len(stack') = Len(stack)
    /\ stack'[Len(stack)].at = "ret"

\* C22 (failure returns the unbranched board): no branch of a node alters a
\* candidate set of the node's own board; when every branch has failed the
\* node returns that board with failure; and at the top level the result
\* puzzle is then the grid of the board after the initial propagation.
C22_FailureReturnsUnbranched ==
    /\ [][BranchingBoardsKept]_vars
    /\ [][AllBranchesFailed =>
             stack'[Len(stack)].ret = [board |-> Top.constraints, solved |-> FALSE]]_vars
    /\ []((Done /\ ~solved /\ stack[1].candidate # -1) =>
             Result = PropagatedGrid(puzzle0))

\* A search that branched and failed, returning a grid in which propagation
\* has filled a blank of the puzzle and the branch cell is still zero.
C22_Witness ==
    /\ Done /\ ~solved
    /\ stack[1].candidate # -1
    /\ At(Result, stack[1].candidate) = 0
    /\ \E c \in Cells : At(puzzle0, c) = 0 /\ At(Result, c) # 0

-----------------------------------------------------------------------------
(* Claim about the mask table (specification SpecProp) *)

\* The cells of row, column and box i by the arithmetic on the index.
RowOf(x) == x \div dim
ColOf(x) == x % dim
BoxOf(x) == (RowOf(x) \div boxDim) * boxDim + ColOf(x) \div boxDim

StatedCellsOf ==
    [u \in Units |-> CASE u[1] = 1 -> {x \in Cells : RowOf(x) = u[2] - 1}
                      [] u[1] = 2 -> {x \in Cells : ColOf(x) = u[2] - 1}
                      [] u[1] = 3 -> {x \in Cells : BoxOf(x) = u[2] - 1}]

\* The cells stated for mask i (0-based) of family cat.
StatedCells(cat, i) == StatedCellsOf[<<cat, i + 1>>]

\* The table has the stated shape and content.
MaskTableAsStated ==
    /\ Len(masks) = 3
    /\ \A cat \in 1..Len(masks) :
          /\ Len(masks[cat]) = dim
          /\ \A m \in 1..Len(masks[cat]) :
                /\ Len(masks[cat][m]) = dim
                /\ {masks[cat][m][n] : n \in 1..Len(masks[cat][m])}
                      = StatedCells(cat, m - 1)
          /\ \A x \in Cells :
                Cardinality({m \in 1..Len(masks[cat]) :
                    \E n \in 1..Len(masks[cat][m]) : masks[cat][m][n] = x}) = 1

\* C23 (mask table): generateBoardMasks yields 3 families of 9 masks of 9
\* cell indices; row mask i holds exactly the cells with index/9 = i, column
\* mask i those with index%9 = i, box mask i those with
\* (row/3)*3 + column/3 = i; within a family every index 0..80 lies in
\* exactly one mask.  So a rule applied to one mask changes cells of that
\* row, column or box only.
C23_MaskTable ==
    /\ MaskTableAsStated
    /\ (prop.at = "applied" /\ prop.op \in {"A", "B"}) =>
          \A c \in Cells :
              Before(c) # Now(c) => c \in StatedCells(prop.unit[1], prop.unit[2] - 1)

\* A rule applied to the mask of the last box (built with the offset at its
\* highest) has changed a cell.
C23_Witness ==
    /\ prop.at = "applied" /\ prop.op \in {"A", "B"}
    /\ prop.unit = <<3, dim>>
    /\ \E c \in Cells : Before(c) # Now(c) /\ BoxOf(c) = dim - 1

-----------------------------------------------------------------------------
(* Claim about the direction of propagation (specification SpecProp) *)

\* C24 (candidate sets only shrink): after a propagation step (Rule A or
\* Rule B on a mask, or a whole cycle), on a board that earlier cycles may
\* have worked on, every cell's candidate set is a subset of its set before
\* the step and of the set the puzzle gave it; an empty cell is still empty,
\* and a singleton {v} is {v} or empty.
C24_OnlyShrink ==
    prop.at = "applied" =>
        \A c \in Cells :
            /\ Now(c) \subseteq Before(c)
            /\ Before(c) \subseteq newConstraint(At(puzzle0, c))
            /\ Before(c) = {} => Now(c) = {}
            /\ \A v \in 1..dim : Before(c) = {v} => Now(c) \in {{v}, {}}

\* A step on a board that an earlier cycle left with an empty cell: the
\* step has emptied a singleton, and the empty cell is still empty.
C24_Witness ==
    /\ prop.at = "applied"
    /\ \E c \in Cells : Cardinality(Before(c)) = 1 /\ Now(c) = {}
    /\ \E c \in Cells : Before(c) = {} /\ Now(c) = {}

====
